---- MODULE Spec2Model ----
(***************************************************************************)
(* go-puzzle-proxy: an HTTP handler that answers puzzle requests from a    *)
(* PostgreSQL cache keyed by the SHA-256 of the re-serialised request, and *)
(* on a miss asks the Gemini API, stores the answer and returns it.        *)
(*                                                                         *)
(* Byte strings are records [doc, layout]: doc is the sequence of          *)
(* characters that carries the content and layout says how the bytes are   *)
(* laid out ("go": what encoding/json emits, "pretty": a JSON text with    *)
(* free white space and key order, "pg": what a jsonb column gives back,   *)
(* "raw": bytes that are no JSON text, "nil": a nil Go slice).  Two byte   *)
(* strings are the same bytes exactly when both fields agree.              *)
(***************************************************************************)
EXTENDS Integers, Sequences, FiniteSets, TLC

\* ------------------------------------------------------------------ bounds
\* Number of HTTP requests the server receives in one behaviour.
MaxRequests == 2
\* Longest topics list of the requests whose fingerprints are compared.
MaxTopics == 2
\* Most candidates in a provider envelope, and most parts in a candidate.
MaxCandidates == 2
MaxParts == 2

\* --------------------------------------------------------- HTTP constants
StatusOK == 200
StatusBadRequest == 400
StatusMethodNotAllowed == 405
StatusInternalServerError == 500

\* ------------------------------------------------------------ byte strings
NilBytes == [doc |-> <<>>, layout |-> "nil"]

RECURSIVE Concat(_)
\* The concatenation of a sequence of sequences.
Concat(ss) == IF ss = <<>> THEN <<>> ELSE Head(ss) \o Concat(Tail(ss))

RECURSIVE Join(_, _)
\* The sequences of ss with sep between neighbours.
Join(ss, sep) ==
    IF ss = <<>> THEN <<>>
    ELSE IF Len(ss) = 1 THEN Head(ss)
    ELSE Head(ss) \o sep \o Join(Tail(ss), sep)

\* ---------------------------------------------------------- PuzzleRequest
\* A Go string is a sequence of characters; a []string is a slice, which is
\* nil or holds its elements (a nil slice and an empty one are two values).
NilSlice == [isNil |-> TRUE, elems |-> <<>>]
Slice(elems) == [isNil |-> FALSE, elems |-> elems]

PuzzleRequest(gameType, difficulty, topics, language) ==
    [GameType |-> gameType, Difficulty |-> difficulty,
     Topics |-> topics, Language |-> language]

\* encoding/json's string encoder without the quotes, character by character:
\* a quote and a backslash are escaped.
EscapeCharNoEscape(c) == <<c>>
EscapeChar(c) ==
    IF c = "\"" THEN <<"\\", "\"">>
    ELSE IF c = "\\" THEN <<"\\", "\\">>
    ELSE <<c>>

\* A Go string as a JSON string.
EncodeString(s) ==
    <<"\"">> \o Concat([k \in 1..Len(s) |-> EscapeChar(s[k])]) \o <<"\"">>

\* A []string as JSON: null for the nil slice, else an array.
EncodeSliceNilAsEmpty(t) ==
    <<"[">>
    \o Join([k \in 1..Len(t.elems) |-> EncodeString(t.elems[k])], <<",">>)
    \o <<"]">>
EncodeSlice(t) ==
    IF t.isNil THEN <<"null">>
    ELSE <<"[">>
         \o Join([k \in 1..Len(t.elems) |-> EncodeString(t.elems[k])], <<",">>)
         \o <<"]">>

\* The characters of some Go strings.
StrGameType == <<"g", "a", "m", "e", "T", "y", "p", "e">>
StrDifficulty == <<"d", "i", "f", "f", "i", "c", "u", "l", "t", "y">>
StrTopics == <<"t", "o", "p", "i", "c", "s">>
StrLanguage == <<"l", "a", "n", "g", "u", "a", "g", "e">>
StrCrossword == <<"c", "r", "o", "s", "s", "w", "o", "r", "d">>
StrWordsearch == <<"w", "o", "r", "d", "s", "e", "a", "r", "c", "h">>
StrEasy == <<"e", "a", "s", "y">>
StrEasyCapital == <<"E", "a", "s", "y">>
StrPt == <<"p", "t">>

\* json.Marshal(req): the fields in declaration order under their json tags.
Marshal(req) ==
    [doc |-> <<"{">> \o EncodeString(StrGameType) \o <<":">>
             \o EncodeString(req.GameType)
             \o <<",">> \o EncodeString(StrDifficulty) \o <<":">>
             \o EncodeString(req.Difficulty)
             \o <<",">> \o EncodeString(StrTopics) \o <<":">>
             \o EncodeSlice(req.Topics)
             \o <<",">> \o EncodeString(StrLanguage) \o <<":">>
             \o EncodeString(req.Language)
             \o <<"}">>,
     layout |-> "go"]

\* hex(sha256(b)): the digest is taken to be collision-free, so it is modelled
\* as a tagged copy of the bytes it was computed from.
SHA256Hex(b) == <<"sha256", b>>

\* The cache key of a decoded request.
RequestHash(req) == SHA256Hex(Marshal(req))


\* ------------------------------------------------------------------ errors
\* The body of a provider reply: whether it parses as the response envelope
\* and, if so, its candidates, each the sequence of the texts of its parts.
ReplyBody(parses, candidates) == [parses |-> parses, candidates |-> candidates]
NoBody == ReplyBody(FALSE, <<>>)

\* A Go error: its kind and the provider status and raw body its text carries.
ErrWith(kind, status, raw) == [kind |-> kind, status |-> status, raw |-> raw]
Err(kind) == ErrWith(kind, 0, NoBody)
NilErr == Err("nil")

\* ------------------------------------------------ body of the HTTP request
\* A request body: whether it is a JSON text that decodes into PuzzleRequest,
\* the fields it gives, and whether it also holds what the decoder drops
\* (unknown members, white space).
ZeroRequest == PuzzleRequest(<<>>, <<>>, NilSlice, <<>>)
Body(syntax, req, extra) == [syntax |-> syntax, req |-> req, extra |-> extra]

\* json.NewDecoder(r.Body).Decode(&req)
Decode(body) ==
    IF body.syntax = "ok"
    THEN [req |-> body.req, err |-> NilErr]
    ELSE [req |-> ZeroRequest, err |-> Err("decode")]

\* r.Method != http.MethodPost
MethodAllowedAny(method) == TRUE
MethodAllowed(method) == method = "POST"

\* ----------------------------------------------------------- cached_puzzles
\* A jsonb column takes a JSON text only.
JsonbAccepts(b) == b.layout \in {"go", "pretty", "pg"}
\* What a jsonb column gives back for the text it was given: the same
\* document in PostgreSQL's own layout.
JsonbColumn(b) == [doc |-> b.doc, layout |-> "pg"]

Row(requestHash, requestParams, responseData, createdAt) ==
    [request_hash |-> requestHash, request_params |-> requestParams,
     response_data |-> responseData, created_at |-> createdAt]

RowsOf(table, requestHash) == {r \in table : r.request_hash = requestHash}

\* DBService.GetCachedPuzzle: fault says that the query fails.
GetCachedPuzzle(table, requestHash, fault) ==
    IF fault THEN [data |-> NilBytes, err |-> Err("get")]
    ELSE IF RowsOf(table, requestHash) = {}
    THEN [data |-> NilBytes, err |-> NilErr]
    ELSE [data |-> (CHOOSE r \in RowsOf(table, requestHash) : TRUE).response_data,
          err |-> NilErr]

\* INSERT without ON CONFLICT and without the unique constraint.
SaveCachedPuzzlePlainInsert(table, requestHash, requestParams, responseData, now, fault) ==
    IF fault \/ ~JsonbAccepts(requestParams) \/ ~JsonbAccepts(responseData)
    THEN [table |-> table, err |-> Err("save")]
    ELSE [table |-> table \cup {Row(requestHash, JsonbColumn(requestParams),
                                    JsonbColumn(responseData), now)},
          err |-> NilErr]

\* INSERT ... ON CONFLICT (request_hash) DO NOTHING.
SaveCachedPuzzleDoNothing(table, requestHash, requestParams, responseData, now, fault) ==
    IF fault \/ ~JsonbAccepts(requestParams) \/ ~JsonbAccepts(responseData)
    THEN [table |-> table, err |-> Err("save")]
    ELSE IF RowsOf(table, requestHash) # {}
    THEN [table |-> table, err |-> NilErr]
    ELSE [table |-> table \cup {Row(requestHash, JsonbColumn(requestParams),
                                    JsonbColumn(responseData), now)},
          err |-> NilErr]

\* A statement that reports success and stores nothing.
SaveCachedPuzzleNoOp(table, requestHash, requestParams, responseData, now, fault) ==
    IF fault \/ ~JsonbAccepts(requestParams) \/ ~JsonbAccepts(responseData)
    THEN [table |-> table, err |-> Err("save")]
    ELSE [table |-> table, err |-> NilErr]

\* The two payloads bound to each other's column.
SaveCachedPuzzleSwapped(table, requestHash, requestParams, responseData, now, fault) ==
    IF fault \/ ~JsonbAccepts(requestParams) \/ ~JsonbAccepts(responseData)
    THEN [table |-> table, err |-> Err("save")]
    ELSE [table |-> (table \ RowsOf(table, requestHash))
                    \cup {Row(requestHash, JsonbColumn(responseData),
                               JsonbColumn(requestParams), now)},
          err |-> NilErr]

\* DBService.SaveCachedPuzzle: INSERT ... ON CONFLICT (request_hash) DO UPDATE.
\* fault says that the statement fails in the store; it also fails when a
\* jsonb column is given bytes that are no JSON text.
SaveCachedPuzzle(table, requestHash, requestParams, responseData, now, fault) ==
    IF fault \/ ~JsonbAccepts(requestParams) \/ ~JsonbAccepts(responseData)
    THEN [table |-> table, err |-> Err("save")]
    ELSE IF RowsOf(table, requestHash) # {}
    THEN [table |-> {IF r.request_hash = requestHash
                     THEN [r EXCEPT !.request_params = JsonbColumn(requestParams),
                                    !.response_data = JsonbColumn(responseData),
                                    !.created_at = now]
                     ELSE r : r \in table},
          err |-> NilErr]
    ELSE [table |-> table \cup {Row(requestHash, JsonbColumn(requestParams),
                                    JsonbColumn(responseData), now)},
          err |-> NilErr]

\* ---------------------------------------------------------- GeminiPuzzleService
PlaceholderKey == "YOUR_GEMINI_API_KEY_HERE"

\* strings.ToLower, character by character.
ToLowerChar(c) == IF c = "E" THEN "e" ELSE c
ToLower(s) == [k \in 1..Len(s) |-> ToLowerChar(s[k])]

\* What GeneratePuzzle puts into the provider request: the template and the
\* schema the game type selects and the values interpolated into the prompt.
GeminiRequestOfCrosswordElse(apiKey, req) ==
    [key |-> apiKey,
     template |-> IF req.GameType = StrWordsearch THEN "wordsearch" ELSE "crossword",
     schema |-> IF req.GameType = StrWordsearch THEN "wordsearch" ELSE "crossword",
     gameTypeString |-> IF req.GameType = StrWordsearch
                        THEN "word search puzzle" ELSE "crossword puzzle",
     difficultyString |-> ToLower(req.Difficulty),
     language |-> req.Language,
     topicsString |-> IF Len(req.Topics.elems) > 0
                      THEN <<"about ">> \o Join(req.Topics.elems, <<", ">>)
                      ELSE <<"general knowledge">>]
GeminiRequestOf(apiKey, req) ==
    [key |-> apiKey,
     template |-> IF req.GameType = StrCrossword THEN "crossword" ELSE "wordsearch",
     schema |-> IF req.GameType = StrCrossword THEN "crossword" ELSE "wordsearch",
     gameTypeString |-> IF req.GameType = StrCrossword
                        THEN "crossword puzzle" ELSE "word search puzzle",
     difficultyString |-> ToLower(req.Difficulty),
     language |-> req.Language,
     topicsString |-> IF Len(req.Topics.elems) > 0
                      THEN <<"about ">> \o Join(req.Topics.elems, <<", ">>)
                      ELSE <<"general knowledge">>]

\* No provider request was sent.
NoGeminiRequest ==
    [key |-> "", template |-> "none", schema |-> "none", gameTypeString |-> "",
     difficultyString |-> <<>>, language |-> <<>>, topicsString |-> <<>>]

\* The outcome of one POST to the provider: the transport fails ("fail"),
\* the reply's body cannot be read to its end ("cut"), or the provider
\* replies with a status and a body ("ok").
Reply(net, status, body) == [net |-> net, status |-> status, body |-> body]

\* GeminiPuzzleService.GeneratePuzzle: the credential guard, the request, the
\* one POST (whose outcome is reply) and the handling of the reply.
GeneratePuzzleLastPart(apiKey, req, reply) ==
    IF apiKey = "" \/ apiKey = PlaceholderKey
    THEN [data |-> NilBytes, err |-> Err("credential"), sent |-> NoGeminiRequest]
    ELSE LET sent == GeminiRequestOf(apiKey, req)
             cands == reply.body.candidates
         IN  IF reply.net = "fail"
             THEN [data |-> NilBytes, err |-> Err("transport"), sent |-> sent]
             ELSE IF reply.net # "ok"
             THEN [data |-> NilBytes, err |-> Err("read"), sent |-> sent]
             ELSE IF reply.status # StatusOK
             THEN [data |-> NilBytes,
                   err |-> ErrWith("status", reply.status, reply.body), sent |-> sent]
             ELSE IF ~reply.body.parses
             THEN [data |-> NilBytes,
                   err |-> ErrWith("unmarshal", 0, reply.body), sent |-> sent]
             ELSE IF Len(cands) = 0 \/ Len(cands[Len(cands)]) = 0
             THEN [data |-> NilBytes,
                   err |-> ErrWith("empty", 0, reply.body), sent |-> sent]
             ELSE [data |-> cands[Len(cands)][Len(cands[Len(cands)])],
                   err |-> NilErr, sent |-> sent]
GeneratePuzzle(apiKey, req, reply) ==
    IF apiKey = "" \/ apiKey = PlaceholderKey
    THEN [data |-> NilBytes, err |-> Err("credential"), sent |-> NoGeminiRequest]
    ELSE LET sent == GeminiRequestOf(apiKey, req)
             cands == reply.body.candidates
         IN  IF reply.net = "fail"
             THEN [data |-> NilBytes, err |-> Err("transport"), sent |-> sent]
             ELSE IF reply.net # "ok"
             THEN [data |-> NilBytes, err |-> Err("read"), sent |-> sent]
             ELSE IF reply.status # StatusOK
             THEN [data |-> NilBytes,
                   err |-> ErrWith("status", reply.status, reply.body), sent |-> sent]
             ELSE IF ~reply.body.parses
             THEN [data |-> NilBytes,
                   err |-> ErrWith("unmarshal", 0, reply.body), sent |-> sent]
             ELSE IF Len(cands) = 0 \/ Len(cands[1]) = 0
             THEN [data |-> NilBytes,
                   err |-> ErrWith("empty", 0, reply.body), sent |-> sent]
             ELSE [data |-> cands[1][1], err |-> NilErr, sent |-> sent]

\* ------------------------------------------------- generatePuzzleHandler
\* What the handler does with the result of the lookup: an error is logged
\* and otherwise ignored; a non-nil cached response is returned.
AfterLookupAbortOnError(cachedResponse, err) ==
    IF err # NilErr THEN "fail"
    ELSE IF cachedResponse # NilBytes THEN "hit" ELSE "generate"
AfterLookupNeverHit(cachedResponse, err) == "generate"
AfterLookup(cachedResponse, err) ==
    IF cachedResponse # NilBytes THEN "hit" ELSE "generate"

\* What the handler does with the result of GeneratePuzzle.
AfterGenerateIgnoreError(err) == "save"
AfterGenerateRetry(err) == IF err # NilErr THEN "generate" ELSE "save"
AfterGenerate(err) == IF err # NilErr THEN "fail" ELSE "save"

\* What the handler does with the result of SaveCachedPuzzle: an error is
\* logged and the response is written all the same.
AfterSaveAbortOnError(err) == IF err # NilErr THEN "fail" ELSE "respond"
AfterSave(err) == "respond"

\* The response of http.Error(w, text, code).
HTTPError(code, text, err) ==
    [status |-> code, contentType |-> "text/plain; charset=utf-8",
     body |-> NilBytes, text |-> text, err |-> err]

\* The response after w.Header().Set("Content-Type", ...) and w.Write(data).
HTTPWriteTruncated(data) ==
    [status |-> StatusOK, contentType |-> "application/json",
     body |-> [doc |-> <<>>, layout |-> data.layout], text |-> "", err |-> NilErr]
HTTPWrite(data) ==
    [status |-> StatusOK, contentType |-> "application/json",
     body |-> data, text |-> "", err |-> NilErr]

\* Nothing written yet.
NoResponse ==
    [status |-> 0, contentType |-> "", body |-> NilBytes, text |-> "", err |-> NilErr]

\* ------------------------------------------------------------------ inputs
StrAnimals == <<"a", "n", "i", "m", "a", "l", "s">>
StrNature == <<"n", "a", "t", "u", "r", "e">>

ReqA == PuzzleRequest(StrCrossword, StrEasy, Slice(<<StrAnimals, StrNature>>), StrPt)
ReqB == PuzzleRequest(StrWordsearch, StrEasyCapital, NilSlice, StrPt)

Methods == {"GET", "POST"}
BadBody == Body("bad", ZeroRequest, FALSE)
Bodies == {BadBody, Body("ok", ReqA, FALSE), Body("ok", ReqB, FALSE)}

\* Texts a provider reply can carry: a document laid out freely, another
\* laid out as a jsonb column lays it out, and a text that is no JSON.
TextPretty == [doc |-> <<"A">>, layout |-> "pretty"]
TextPgB == [doc |-> <<"B">>, layout |-> "pg"]
TextRaw == [doc |-> <<"x">>, layout |-> "raw"]
Texts == {TextPretty, TextPgB, TextRaw}

\* What the provider may do with a POST: no reply, an error status, a body
\* that is no envelope, an envelope without candidates, and envelopes whose
\* first candidate's first part carries each of the texts.
Replies ==
    {Reply("fail", 0, NoBody),
     Reply("ok", StatusInternalServerError, NoBody),
     Reply("ok", StatusOK, NoBody),
     Reply("ok", StatusOK, ReplyBody(TRUE, <<>>)),
     Reply("ok", StatusOK, ReplyBody(TRUE, <<<<TextPgB, TextRaw>>, <<TextPretty>>>>))}
    \cup {Reply("ok", StatusOK, ReplyBody(TRUE, <<<<t>>>>)) : t \in Texts}

RealKey == "a-real-key"
Envs == [DATABASE_URL : {"", "postgres://db"},
         GEMINI_API_KEY : {"", PlaceholderKey, RealKey}]

\* ------------------------------------------------------------------- state
VARIABLES
    env,        \* the process environment main reads
    server,     \* "starting", "listening", or "fatal" after log.Fatal
    apiKey,     \* GeminiPuzzleService.apiKey
    table,      \* the rows of cached_puzzles
    clock,      \* what time.Now() returns next
    handler,    \* per request: the locals of generatePuzzleHandler, its
                \* response, and a record of the calls it made
    fp,         \* two request bodies and the cache keys derived from them
    gen         \* one call of GeneratePuzzle on its own: its arguments, the
                \* provider's reply and what it returned

vars == <<env, server, apiKey, table, clock, handler, fp, gen>>

RequestIds == 1..MaxRequests

IdleHandler ==
    [pc |-> "idle", method |-> "", body |-> BadBody, req |-> ZeroRequest,
     reqBytes |-> NilBytes, requestHash |-> SHA256Hex(NilBytes),
     cachedResponse |-> NilBytes, geminiResponse |-> NilBytes,
     w |-> NoResponse,
     \* the calls the request made
     lookups |-> 0, lookupErr |-> NilErr, rowsAtLookup |-> {}, lookupAt |-> 0,
     genCalls |-> 0, sent |-> NoGeminiRequest, genErr |-> NilErr,
     saves |-> 0, saveErr |-> NilErr, savedAt |-> 0]

\* No bodies are being compared.
FpIdle ==
    [pc |-> "idle", a |-> BadBody, b |-> BadBody,
     hashA |-> SHA256Hex(NilBytes), hashB |-> SHA256Hex(NilBytes)]

\* GeneratePuzzle is not being called on its own.
GenIdle ==
    [pc |-> "idle", apiKey |-> "", req |-> ZeroRequest,
     reply |-> Reply("fail", 0, NoBody),
     out |-> [data |-> NilBytes, err |-> NilErr, sent |-> NoGeminiRequest],
     next |-> ""]

Init ==
    /\ fp = FpIdle
    /\ gen = GenIdle
    /\ env \in Envs
    /\ server = "starting"
    /\ apiKey = ""
    /\ table = {}
    /\ clock = 1
    /\ handler = [i \in RequestIds |-> IdleHandler]

\* main: the environment is read, the store is opened (dbOk says whether
\* that works), the services are built and the server listens.
Main ==
    /\ server = "starting"
    /\ \E dbOk \in BOOLEAN :
          IF env.DATABASE_URL = "" \/ env.GEMINI_API_KEY = "" \/ ~dbOk
          THEN server' = "fatal" /\ apiKey' = apiKey
          ELSE server' = "listening" /\ apiKey' = env.GEMINI_API_KEY
    /\ UNCHANGED <<env, table, clock, handler, fp, gen>>

Done(i) == handler[i].pc = "done"

\* generatePuzzleHandler up to the lookup: the method check, the decoding of
\* the body, the re-serialisation and the hash.  json.Marshal cannot fail on
\* a struct of strings and a string slice, so its error branch has no step.
\* bodies are the bodies clients send.
ReceiveFrom(i, bodies) ==
    /\ server = "listening"
    /\ handler[i].pc = "idle"
    /\ \E method \in Methods, body \in bodies :
          LET h == [handler[i] EXCEPT !.method = method]
              d == Decode(body)
          IN  handler' = [handler EXCEPT ![i] =
                  IF ~MethodAllowed(method)
                  THEN [h EXCEPT !.pc = "done",
                                 !.w = HTTPError(StatusMethodNotAllowed, "method", NilErr)]
                  ELSE IF d.err # NilErr
                  THEN [h EXCEPT !.pc = "done", !.body = body,
                                 !.w = HTTPError(StatusBadRequest, "payload", d.err)]
                  ELSE [h EXCEPT !.pc = "lookup", !.body = body, !.req = d.req,
                                 !.reqBytes = Marshal(d.req),
                                 !.requestHash = SHA256Hex(Marshal(d.req))]]
    /\ UNCHANGED <<env, server, apiKey, table, clock, fp, gen>>

Receive(i) == ReceiveFrom(i, Bodies)

\* The lookup and what follows it at once: the cached response is written,
\* or the handler goes on to the provider.
Lookup(i) ==
    /\ handler[i].pc = "lookup"
    /\ \E fault \in BOOLEAN :
          LET got == GetCachedPuzzle(table, handler[i].requestHash, fault)
              next == AfterLookup(got.data, got.err)
              h == [handler[i] EXCEPT !.cachedResponse = got.data,
                                      !.lookups = @ + 1,
                                      !.lookupErr = got.err,
                                      !.lookupAt = clock,
                                      !.rowsAtLookup = RowsOf(table, handler[i].requestHash)]
          IN  handler' = [handler EXCEPT ![i] =
                  IF next = "hit"
                  THEN [h EXCEPT !.pc = "done", !.w = HTTPWrite(got.data)]
                  ELSE IF next = "generate"
                  THEN [h EXCEPT !.pc = "generate"]
                  ELSE [h EXCEPT !.pc = "done",
                                 !.w = HTTPError(StatusInternalServerError, "cache", got.err)]]
    /\ UNCHANGED <<env, server, apiKey, table, clock, fp, gen>>

\* The call of GeneratePuzzle and the error response that ends the request
\* when it fails.
Generate(i) ==
    /\ handler[i].pc = "generate"
    /\ \E reply \in Replies :
          LET g == GeneratePuzzle(apiKey, handler[i].req, reply)
              next == AfterGenerate(g.err)
              h == [handler[i] EXCEPT !.geminiResponse = g.data,
                                      !.genCalls = @ + 1,
                                      !.sent = g.sent,
                                      !.genErr = g.err]
          IN  handler' = [handler EXCEPT ![i] =
                  IF next = "fail"
                  THEN [h EXCEPT !.pc = "done",
                                 !.w = HTTPError(StatusInternalServerError, "generate", g.err)]
                  ELSE [h EXCEPT !.pc = next]]
    /\ UNCHANGED <<env, server, apiKey, table, clock, fp, gen>>

\* The cache write and the response that follows it.
Save(i) ==
    /\ handler[i].pc = "save"
    /\ \E fault \in BOOLEAN :
          LET put == SaveCachedPuzzle(table, handler[i].requestHash,
                                      handler[i].reqBytes,
                                      handler[i].geminiResponse, clock, fault)
              next == AfterSave(put.err)
              h == [handler[i] EXCEPT !.saves = @ + 1, !.saveErr = put.err,
                                      !.savedAt = clock, !.pc = "done"]
          IN  /\ table' = put.table
              /\ handler' = [handler EXCEPT ![i] =
                    IF next = "respond"
                    THEN [h EXCEPT !.w = HTTPWrite(handler[i].geminiResponse)]
                    ELSE [h EXCEPT !.w = HTTPError(StatusInternalServerError,
                                                   "cache", put.err)]]
    /\ clock' = clock + 1
    /\ UNCHANGED <<env, server, apiKey, fp, gen>>

Next ==
    \/ Main
    \/ \E i \in RequestIds : Receive(i)
    \/ \E i \in RequestIds : Lookup(i)
    \/ \E i \in RequestIds : Generate(i)
    \/ \E i \in RequestIds : Save(i)

Spec == Init /\ [][Next]_vars

\* Requests served one at a time: a request is received only when no other
\* is in flight.
ReceiveSeq(i) ==
    /\ \A j \in RequestIds \ {i} : handler[j].pc \in {"idle", "done"}
    /\ Receive(i)

NextSeq ==
    \/ Main
    \/ \E i \in RequestIds : ReceiveSeq(i)
    \/ \E i \in RequestIds : Lookup(i)
    \/ \E i \in RequestIds : Generate(i)
    \/ \E i \in RequestIds : Save(i)

SpecSeq == Init /\ [][NextSeq]_vars

\* ----------------------------- requests that the prompt does not tell apart
\* ReqB with its difficulty in lower case, and with an empty topics list in
\* place of none.
ReqBLower == [ReqB EXCEPT !.Difficulty = StrEasy]
ReqBEmpty == [ReqB EXCEPT !.Topics = Slice(<<>>)]
FinerBodies == {Body("ok", r, FALSE) : r \in {ReqB, ReqBLower, ReqBEmpty}}

\* The process is started with a store and a real credential.
InitFiner ==
    /\ fp = FpIdle
    /\ gen = GenIdle
    /\ env = [DATABASE_URL |-> "postgres://db", GEMINI_API_KEY |-> RealKey]
    /\ server = "starting"
    /\ apiKey = ""
    /\ table = {}
    /\ clock = 1
    /\ handler = [i \in RequestIds |-> IdleHandler]

ReceiveFinerSeq(i) ==
    /\ \A j \in RequestIds \ {i} : handler[j].pc \in {"idle", "done"}
    /\ ReceiveFrom(i, FinerBodies)

NextFiner ==
    \/ Main
    \/ \E i \in RequestIds : ReceiveFinerSeq(i)
    \/ \E i \in RequestIds : Lookup(i)
    \/ \E i \in RequestIds : Generate(i)
    \/ \E i \in RequestIds : Save(i)

SpecFiner == InitFiner /\ [][NextFiner]_vars

\* ------------------------------------- the server without a real credential
\* The value the README's .env template gives GEMINI_API_KEY.
ReadmePlaceholderKey == "YOUR_GEMINI_API_KEY"
\* The credentials that are no credential: none, the placeholder the guard
\* of GeneratePuzzle names and the placeholder of the README's template.
NoCredentials == {"", PlaceholderKey, ReadmePlaceholderKey}

\* The process is started with a store and without a real credential.
InitCred ==
    /\ fp = FpIdle
    /\ gen = GenIdle
    /\ env \in [DATABASE_URL : {"postgres://db"}, GEMINI_API_KEY : NoCredentials]
    /\ server = "starting"
    /\ apiKey = ""
    /\ table = {}
    /\ clock = 1
    /\ handler = [i \in RequestIds |-> IdleHandler]

SpecCred == InitCred /\ [][Next]_vars

\* --------------------------------------------- the cache key on its own
\* Field values of the requests whose keys are compared: strings with the
\* characters JSON escapes, and topics lists up to MaxTopics long.
FpTopicStrings == {<<"a">>, <<"a", "\"", ",", "\"", "a">>}
FpLanguages == {StrPt, <<"\\">>}
FpGameTypes == {StrCrossword, <<>>}
FpDifficulties == {StrEasy, StrEasyCapital}

RECURSIVE SeqsUpTo(_, _)
\* The sequences over S of length at most n.
SeqsUpTo(S, n) ==
    IF n = 0 THEN {<<>>}
    ELSE LET shorter == SeqsUpTo(S, n - 1)
         IN  shorter \cup {Append(q, x) : q \in shorter, x \in S}

FpTopics == {NilSlice} \cup {Slice(q) : q \in SeqsUpTo(FpTopicStrings, MaxTopics)}

FpRequests ==
    {PuzzleRequest(g, d, t, l) :
        g \in FpGameTypes, d \in FpDifficulties, t \in FpTopics, l \in FpLanguages}

InitFp ==
    /\ env = [DATABASE_URL |-> "postgres://db", GEMINI_API_KEY |-> RealKey]
    /\ server = "listening"
    /\ apiKey = RealKey
    /\ table = {}
    /\ clock = 1
    /\ handler = [i \in RequestIds |-> IdleHandler]
    /\ gen = GenIdle
    /\ \E ra \in FpRequests, rb \in FpRequests, extra \in BOOLEAN :
          fp = [FpIdle EXCEPT !.pc = "input", !.a = Body("ok", ra, extra),
                              !.b = Body("ok", rb, FALSE)]

\* The handler's derivation of the key, applied to both bodies.
DeriveFingerprints ==
    /\ fp.pc = "input"
    /\ fp' = [fp EXCEPT !.pc = "derived",
                        !.hashA = SHA256Hex(Marshal(Decode(fp.a).req)),
                        !.hashB = SHA256Hex(Marshal(Decode(fp.b).req))]
    /\ UNCHANGED <<env, server, apiKey, table, clock, handler, gen>>

NextFp == DeriveFingerprints

SpecFp == InitFp /\ [][NextFp]_vars

\* ------------------------------------------- GeneratePuzzle on its own
\* Game types: the two the service knows, the empty string and two strings
\* it does not know, one of them "crossword" with a capital.
StrCrosswordCapital == <<"C", "r", "o", "s", "s", "w", "o", "r", "d">>
StrSudoku == <<"s", "u", "d", "o", "k", "u">>
GenGameTypes == {StrCrossword, StrWordsearch, <<>>, StrCrosswordCapital, StrSudoku}
GenTopics == {NilSlice, Slice(<<>>), Slice(<<StrAnimals, StrNature>>)}
GenRequests ==
    {PuzzleRequest(g, d, t, StrPt) :
        g \in GenGameTypes, d \in {StrEasy, StrEasyCapital}, t \in GenTopics}
GenKeys == {"", PlaceholderKey, RealKey}

\* Provider replies: every envelope of at most MaxCandidates candidates of at
\* most MaxParts parts each, and a body that is no envelope, under a success
\* and two error statuses; a failed transport and an unreadable body.
GenTexts == {TextPretty, TextRaw}
GenStatuses == {StatusOK, StatusBadRequest, StatusInternalServerError}
GenBodies ==
    {NoBody} \cup
    {ReplyBody(TRUE, c) : c \in SeqsUpTo(SeqsUpTo(GenTexts, MaxParts), MaxCandidates)}
GenReplies ==
    {Reply("fail", 0, NoBody), Reply("cut", StatusOK, NoBody)}
    \cup {Reply("ok", st, b) : st \in GenStatuses, b \in GenBodies}

GenInput(k, r, y) ==
    [GenIdle EXCEPT !.pc = "input", !.apiKey = k, !.req = r, !.reply = y]

\* Every request and key with the replies of Replies and an unreadable body,
\* and one request under a real key with every reply of GenReplies.
InitGen ==
    /\ env = [DATABASE_URL |-> "postgres://db", GEMINI_API_KEY |-> RealKey]
    /\ server = "listening"
    /\ apiKey = RealKey
    /\ table = {}
    /\ clock = 1
    /\ handler = [i \in RequestIds |-> IdleHandler]
    /\ fp = FpIdle
    /\ gen \in {GenInput(k, r, y) : k \in GenKeys, r \in GenRequests,
                    y \in Replies \cup {Reply("cut", StatusOK, NoBody)}}
               \cup {GenInput(RealKey, ReqA, y) : y \in GenReplies}

\* The call of GeneratePuzzle and what the handler does with its result.
CallGeneratePuzzle ==
    /\ gen.pc = "input"
    /\ LET g == GeneratePuzzle(gen.apiKey, gen.req, gen.reply)
       IN  gen' = [gen EXCEPT !.pc = "returned", !.out = g,
                              !.next = AfterGenerate(g.err)]
    /\ UNCHANGED <<env, server, apiKey, table, clock, handler, fp>>

NextGen == CallGeneratePuzzle

SpecGen == InitGen /\ [][NextGen]_vars

\* ================================================================ claims
JSON == "application/json"
Others(i) == RequestIds \ {i}
\* The request looked the key up, the query did not fail and found rows.
FoundRows(i) ==
    /\ handler[i].lookups = 1
    /\ handler[i].lookupErr = NilErr
    /\ handler[i].rowsAtLookup # {}
\* The request looked the key up while the store held no row for it.
Missed(i) ==
    /\ handler[i].lookups = 1
    /\ handler[i].rowsAtLookup = {}
\* The request called GeneratePuzzle and the call succeeded.
Generated(i) == handler[i].genCalls = 1 /\ handler[i].genErr = NilErr
\* The request's cache write was applied.
Wrote(i) == handler[i].saves = 1 /\ handler[i].saveErr = NilErr

\* Request i was answered 200, application/json, with data as the body.
Answered(i, data) ==
    /\ handler[i].w.status = StatusOK
    /\ handler[i].w.contentType = JSON
    /\ handler[i].w.body = data
    /\ handler[i].w.text = ""

\* C1: a request whose lookup does not fail and finds a row for its key is
\* answered, with status 200 and content type application/json, with exactly
\* the response_data of that row; GeneratePuzzle is not invoked, nothing is
\* sent to the provider and SaveCachedPuzzle is not called.
C1_CacheHit ==
    \A i \in RequestIds :
        FoundRows(i) =>
            /\ Done(i)
            /\ handler[i].w.status = StatusOK
            /\ handler[i].w.contentType = JSON
            /\ handler[i].w.body \in {r.response_data : r \in handler[i].rowsAtLookup}
            /\ handler[i].genCalls = 0
            /\ handler[i].sent = NoGeminiRequest
            /\ handler[i].saves = 0

\* A request was answered from a row another request had written.
C1_Witness ==
    \E i \in RequestIds :
        /\ FoundRows(i)
        /\ Done(i)
        /\ handler[i].w.body = JsonbColumn(TextPretty)
        /\ \E j \in Others(i) : Wrote(j) /\ handler[j].geminiResponse = TextPretty

\* The two requests i and j are the only ones received, both are POSTs of the
\* same PuzzleRequest and both have been answered.
SamePairDone(i, j) ==
    /\ i # j
    /\ Done(i) /\ Done(j)
    /\ handler[i].lookups = 1 /\ handler[j].lookups = 1
    /\ handler[i].req = handler[j].req
    /\ \A k \in RequestIds \ {i, j} : handler[k].pc = "idle"

\* C2 as stated: of two equal requests served one after the other from an
\* empty cache, with every provider call made succeeding, the provider is
\* invoked once in all, and the request that did not invoke it returned the
\* stored row's response_data.
C2_Original ==
    \A i, j \in RequestIds :
        (/\ SamePairDone(i, j)
         /\ Generated(i)
         /\ handler[j].genCalls = 1 => handler[j].genErr = NilErr)
        => /\ handler[i].genCalls + handler[j].genCalls = 1
           /\ handler[j].w.body \in
                 {r.response_data : r \in RowsOf(table, handler[j].requestHash)}

\* C2 amended: when the first request's provider call succeeds and its cache
\* write is applied, and the second request's lookup, made after that write,
\* does not fail, the second request is answered with the stored row's
\* response_data without calling GeneratePuzzle or the provider, and the
\* provider was invoked once over both requests.
C2_RepeatedRequest ==
    \A i, j \in RequestIds :
        (/\ SamePairDone(i, j)
         /\ Missed(i) /\ Generated(i) /\ Wrote(i)
         /\ handler[j].lookupAt > handler[i].savedAt
         /\ handler[j].lookupErr = NilErr)
        => /\ handler[j].genCalls = 0
           /\ handler[j].sent = NoGeminiRequest
           /\ handler[j].saves = 0
           /\ handler[j].w.status = StatusOK
           /\ \E r \in table :
                 /\ RowsOf(table, handler[j].requestHash) = {r}
                 /\ handler[j].w.body = r.response_data
           /\ handler[i].genCalls + handler[j].genCalls = 1

\* Both requests are done, the first generated and stored, the second was
\* answered from the row.
C2_Witness ==
    \E i, j \in RequestIds :
        /\ SamePairDone(i, j)
        /\ Missed(i) /\ Generated(i) /\ Wrote(i)
        /\ handler[j].lookupAt > handler[i].savedAt
        /\ handler[j].lookupErr = NilErr
        /\ handler[j].w.body = JsonbColumn(handler[i].geminiResponse)

\* A well-formed POST whose key was absent, whose provider call succeeded and
\* which is answered, while no other request has written to the cache.
MissThenGenerated(i) ==
    /\ Done(i)
    /\ Missed(i) /\ handler[i].lookupErr = NilErr
    /\ Generated(i)
    /\ \A j \in Others(i) : handler[j].saves = 0

C4_ReadFault ==
    \A i \in RequestIds :
        handler[i].lookupErr # NilErr =>
            /\ handler[i].cachedResponse = NilBytes
            /\ handler[i].pc \in {"generate", "save", "done"}
            /\ handler[i].pc # "generate" => handler[i].genCalls = 1
            /\ (Done(i) /\ handler[i].genErr = NilErr) =>
                  /\ handler[i].geminiResponse \in Texts
                  /\ Answered(i, handler[i].geminiResponse)

\* A lookup failed although a row existed, and the request was answered with
\* a newly generated text.
C4_Witness ==
    \E i \in RequestIds :
        /\ handler[i].lookupErr # NilErr
        /\ handler[i].rowsAtLookup # {}
        /\ Done(i) /\ Generated(i)
        /\ handler[i].w.status = StatusOK
        /\ handler[i].w.body = TextPgB

\* Request i takes the step from pc value "from" to pc value "to".
Steps(i, from, to) == handler[i].pc = from /\ handler'[i].pc = to

\* C5: once SaveCachedPuzzle has been called the response is 200,
\* application/json, with the provider's text as body, whether the call
\* returned an error or not; a call that returns an error leaves the table
\* as it was.
C5_WriteFault ==
    /\ [](\A i \in RequestIds :
            handler[i].saves = 1 =>
                /\ Done(i)
                /\ Answered(i, handler[i].geminiResponse))
    /\ [][\A i \in RequestIds :
            (Steps(i, "save", "done") /\ handler'[i].saveErr # NilErr)
                => table' = table]_vars

\* Two requests had the same text from the provider; one write failed, the
\* other was applied, and the responses are equal.
C5_Witness ==
    \E i, j \in RequestIds :
        /\ handler[i].saves = 1 /\ handler[i].saveErr # NilErr
        /\ Wrote(j)
        /\ handler[i].geminiResponse = TextPretty
        /\ handler[j].geminiResponse = TextPretty
        /\ handler[i].w = handler[j].w
        /\ handler[i].w.status = StatusOK

\* C6: a request whose GeneratePuzzle call returned an error is answered 500,
\* never calls SaveCachedPuzzle, and the step that ends it leaves the table
\* as it was.
C6_ProviderFailure ==
    /\ [](\A i \in RequestIds :
            handler[i].genErr # NilErr =>
                /\ Done(i)
                /\ handler[i].w.status = StatusInternalServerError
                /\ handler[i].w.err = handler[i].genErr
                /\ handler[i].saves = 0)
    /\ [][\A i \in RequestIds :
            (handler[i].pc = "generate" /\ handler'[i].genErr # NilErr)
                => table' = table /\ Done(i)']_vars

\* Provider calls failed by a transport error and by an empty envelope, both
\* requests were answered 500 and the cache is still empty.
C6_Witness ==
    \E i, j \in RequestIds :
        /\ handler[i].genErr.kind = "transport"
        /\ handler[j].genErr.kind = "empty"
        /\ handler[i].w.status = StatusInternalServerError
        /\ handler[j].w.status = StatusInternalServerError
        /\ handler[i].saves = 0 /\ handler[j].saves = 0
        /\ table = {}

\* C7: a request that is not a POST is answered 405 and a POST whose body
\* does not decode is answered 400; neither looks the cache up, calls
\* GeneratePuzzle or writes to the cache, and the step that answers it leaves
\* the table as it was.
C7_ClientErrors ==
    /\ [](\A i \in RequestIds :
            /\ (handler[i].pc # "idle" /\ handler[i].method # "POST") =>
                  /\ Done(i)
                  /\ handler[i].w.status = StatusMethodNotAllowed
                  /\ handler[i].lookups = 0
                  /\ handler[i].genCalls = 0
                  /\ handler[i].saves = 0
            /\ (handler[i].pc # "idle" /\ handler[i].method = "POST"
                /\ handler[i].body.syntax # "ok") =>
                  /\ Done(i)
                  /\ handler[i].w.status = StatusBadRequest
                  /\ handler[i].lookups = 0
                  /\ handler[i].genCalls = 0
                  /\ handler[i].saves = 0)
    /\ [][\A i \in RequestIds :
            (handler[i].pc = "idle" /\ handler'[i].w.status
                \in {StatusMethodNotAllowed, StatusBadRequest})
                => table' = table]_vars

\* A GET and a malformed POST were answered and the cache is still empty.
C7_Witness ==
    \E i, j \in RequestIds :
        /\ handler[i].method = "GET" /\ handler[i].w.status = StatusMethodNotAllowed
        /\ handler[j].method = "POST" /\ handler[j].body = BadBody
        /\ handler[j].w.status = StatusBadRequest
        /\ table = {}

\* C8: the keys derived from two request bodies are equal exactly when the
\* bodies decode to equal PuzzleRequest values (field by field, the topics
\* with their order, a nil topics list differing from an empty one).
C8_Fingerprint ==
    fp.pc = "derived" =>
        ((fp.hashA = fp.hashB) <=> (Decode(fp.a).req = Decode(fp.b).req))

\* Two requests with the same topics in a different order got different
\* keys, one of the topics holding the characters JSON escapes.
C8_Witness ==
    /\ fp.pc = "derived"
    /\ fp.a.req.Topics = Slice(<<<<"a">>, <<"a", "\"", ",", "\"", "a">>>>)
    /\ fp.b.req.Topics = Slice(<<<<"a", "\"", ",", "\"", "a">>, <<"a">>>>)
    /\ fp.a.req.GameType = fp.b.req.GameType
    /\ fp.a.req.Difficulty = fp.b.req.Difficulty
    /\ fp.a.req.Language = fp.b.req.Language
    /\ fp.hashA # fp.hashB

\* The rows of the table under other keys than requestHash.
RowsBeside(t, requestHash) == {r \in t : r.request_hash # requestHash}

\* C9: the table never holds two rows with one request_hash; a cache write
\* that is applied leaves under its key exactly the row of its own request
\* parameters, response data and time, as the jsonb columns hold them,
\* whether or not there was a row before, and leaves every row under another
\* key as it was; a write of payloads the row already has leaves them.
C9_Upsert ==
    /\ [](\A r1, r2 \in table : r1.request_hash = r2.request_hash => r1 = r2)
    /\ [][\A i \in RequestIds :
            (Steps(i, "save", "done") /\ handler'[i].saveErr = NilErr) =>
                /\ RowsOf(table', handler[i].requestHash) =
                      {Row(handler[i].requestHash,
                           JsonbColumn(handler[i].reqBytes),
                           JsonbColumn(handler[i].geminiResponse), clock)}
                /\ RowsBeside(table', handler[i].requestHash) =
                      RowsBeside(table, handler[i].requestHash)
                /\ \A r \in RowsOf(table, handler[i].requestHash) :
                      r.response_data = JsonbColumn(handler[i].geminiResponse) =>
                          \A q \in RowsOf(table', handler[i].requestHash) :
                              /\ q.response_data = r.response_data
                              /\ q.request_params = r.request_params]_vars

\* Two writes under one key were applied with different texts: the table
\* holds the later one's row only.
C9_Witness ==
    \E i, j \in RequestIds :
        /\ i # j
        /\ Wrote(i) /\ Wrote(j)
        /\ handler[i].requestHash = handler[j].requestHash
        /\ handler[i].savedAt < handler[j].savedAt
        /\ handler[i].geminiResponse = TextPretty
        /\ handler[j].geminiResponse = TextPgB
        /\ table = {Row(handler[j].requestHash, JsonbColumn(handler[j].reqBytes),
                        JsonbColumn(TextPgB), handler[j].savedAt)}

\* The requests for key h that looked it up while the store held no row.
Group(h) == {i \in RequestIds : handler[i].requestHash = h /\ Missed(i)}
\* The requests whose write under key h was applied.
Writers(h) == {i \in RequestIds : handler[i].requestHash = h /\ Wrote(i)}
\* The one whose write was applied last.
LastWriter(h) ==
    CHOOSE i \in Writers(h) :
        \A j \in Writers(h) : handler[j].savedAt <= handler[i].savedAt
\* Two or more requests for key h missed and every request for h is answered.
ConcurrentMissesDone(h) ==
    /\ Cardinality(Group(h)) >= 2
    /\ \A k \in RequestIds :
          (handler[k].pc # "idle" /\ handler[k].requestHash = h) => Done(k)
Hashes == {handler[i].requestHash : i \in {k \in RequestIds : handler[k].lookups = 1}}

\* C10 as stated: when two or more requests for one key each looked it up
\* before any write, each invoked GeneratePuzzle, each was answered with the
\* text of its own provider call, and once all are answered the store holds
\* exactly one row for the key, with the payload of the write applied last.
C10_Original ==
    \A h \in Hashes :
        ConcurrentMissesDone(h) =>
            /\ \A i \in Group(h) :
                  /\ handler[i].genCalls = 1
                  /\ handler[i].w.status = StatusOK
                  /\ handler[i].w.body = handler[i].geminiResponse
            /\ Cardinality(RowsOf(table, h)) = 1
            /\ Writers(h) # {}
            /\ \A r \in RowsOf(table, h) :
                  r.response_data = JsonbColumn(handler[LastWriter(h)].geminiResponse)

\* C10 amended: each of them invoked GeneratePuzzle once; each one whose call
\* succeeded was answered 200 with the text of its own call and each one
\* whose call failed was answered 500; once all are answered the store holds
\* no row for the key if no write was applied, and otherwise exactly the row
\* of the write applied last.
C10_ConcurrentMisses ==
    \A h \in Hashes :
        ConcurrentMissesDone(h) =>
            /\ \A i \in Group(h) :
                  /\ handler[i].genCalls = 1
                  /\ handler[i].genErr = NilErr =>
                        Answered(i, handler[i].geminiResponse)
                  /\ handler[i].genErr # NilErr =>
                        handler[i].w.status = StatusInternalServerError
            /\ Writers(h) = {} => RowsOf(table, h) = {}
            /\ Writers(h) # {} =>
                  RowsOf(table, h) =
                     {Row(h, JsonbColumn(handler[LastWriter(h)].reqBytes),
                          JsonbColumn(handler[LastWriter(h)].geminiResponse),
                          handler[LastWriter(h)].savedAt)}

\* Two requests missed before either wrote, got different texts, and both
\* writes were applied: each was answered with its own text and the row
\* holds the text of the later write.
C10_Witness ==
    \E i, j \in RequestIds :
        /\ i # j
        /\ handler[i].requestHash = handler[j].requestHash
        /\ ConcurrentMissesDone(handler[i].requestHash)
        /\ Missed(i) /\ Missed(j) /\ Wrote(i) /\ Wrote(j)
        /\ handler[i].savedAt < handler[j].savedAt
        /\ handler[i].w.body = TextPgB
        /\ handler[j].w.body = TextPretty
        /\ \E r \in table : r.response_data = JsonbColumn(TextPretty)

\* The steps request i has made so far are each made once, in the order
\* lookup, provider call, cache write, response.
OnceInOrder(i) ==
    /\ handler[i].lookups <= 1
    /\ handler[i].genCalls <= 1
    /\ handler[i].saves <= 1
    /\ handler[i].sent # NoGeminiRequest => handler[i].genCalls = 1
    /\ handler[i].genCalls = 1 => handler[i].lookups = 1
    /\ handler[i].saves = 1 => Generated(i)
    /\ handler[i].w # NoResponse <=> Done(i)

\* C11: within one request GetCachedPuzzle is called at most once, then
\* GeneratePuzzle at most once (so at most one POST goes to the provider),
\* then SaveCachedPuzzle at most once and only after GeneratePuzzle
\* succeeded, then the one response is written; a step that failed is not
\* made again and nothing is done once the response is written.
C11_NoRetries ==
    /\ [](\A i \in RequestIds : OnceInOrder(i))
    /\ [][\A i \in RequestIds :
            /\ handler'[i].lookups # handler[i].lookups =>
                   /\ handler[i].lookups = 0 /\ handler[i].genCalls = 0
                   /\ handler[i].saves = 0 /\ handler[i].w = NoResponse
            /\ handler'[i].genCalls # handler[i].genCalls =>
                   /\ handler[i].lookups = 1 /\ handler[i].genCalls = 0
                   /\ handler[i].saves = 0 /\ handler[i].w = NoResponse
            /\ handler'[i].saves # handler[i].saves =>
                   /\ Generated(i) /\ handler[i].saves = 0
                   /\ handler[i].w = NoResponse
            /\ handler[i].w # NoResponse => handler'[i] = handler[i]]_vars

\* A request whose lookup failed and whose cache write failed made each of
\* the three calls once and was answered.
C11_Witness ==
    \E i \in RequestIds :
        /\ Done(i)
        /\ handler[i].lookups = 1 /\ handler[i].lookupErr # NilErr
        /\ Generated(i) /\ handler[i].sent # NoGeminiRequest
        /\ handler[i].saves = 1 /\ handler[i].saveErr # NilErr
        /\ handler[i].w.status = StatusOK

\* The reply is a success status with an envelope whose first candidate has
\* a first part.
GoodReply(y) ==
    /\ y.net = "ok"
    /\ y.status = StatusOK
    /\ y.body.parses
    /\ Len(y.body.candidates) > 0
    /\ Len(y.body.candidates[1]) > 0

\* C12: a call of GeneratePuzzle that gets past the credential guard sends
\* the crossword template and schema only when gameType is exactly
\* "crossword"; for every other gameType (wordsearch, the empty string, an
\* unknown string) it sends the word-search template and schema and returns
\* what it returns for the same request with gameType "wordsearch": no
\* error of its own, and on a good reply the text, which the handler goes
\* on to save and return.
C12_GameTypeDefault ==
    (gen.pc = "returned" /\ gen.out.sent # NoGeminiRequest) =>
        IF gen.req.GameType = StrCrossword
        THEN /\ gen.out.sent.template = "crossword"
             /\ gen.out.sent.schema = "crossword"
        ELSE /\ gen.out.sent.template = "wordsearch"
             /\ gen.out.sent.schema = "wordsearch"
             /\ gen.out = GeneratePuzzle(gen.apiKey,
                              [gen.req EXCEPT !.GameType = StrWordsearch], gen.reply)
             /\ GoodReply(gen.reply) =>
                    /\ gen.out.err = NilErr
                    /\ gen.out.data = gen.reply.body.candidates[1][1]
                    /\ gen.next = "save"

\* A request with "Crossword" for its gameType was sent with the
\* word-search template and its text came back.
C12_Witness ==
    /\ gen.pc = "returned"
    /\ gen.req.GameType = StrCrosswordCapital
    /\ gen.out.sent.template = "wordsearch"
    /\ gen.out.sent.schema = "wordsearch"
    /\ gen.out.err = NilErr
    /\ gen.out.data = TextPretty
    /\ gen.next = "save"

\* C14: of a reply that was read, GeneratePuzzle returns an error with the
\* status and the raw body when the status is not 200; otherwise an error
\* when the body is no envelope; otherwise the empty-response error when
\* there is no candidate or the first candidate has no part; otherwise the
\* text of the first part of the first candidate as it is, whatever the
\* other parts and candidates are.
C14_Envelope ==
    (gen.pc = "returned" /\ gen.out.sent # NoGeminiRequest /\ gen.reply.net = "ok") =>
        LET c == gen.reply.body.candidates
        IN  IF gen.reply.status # StatusOK
            THEN /\ gen.out.err = ErrWith("status", gen.reply.status, gen.reply.body)
                 /\ gen.out.data = NilBytes
            ELSE IF ~gen.reply.body.parses
            THEN /\ gen.out.err.kind = "unmarshal"
                 /\ gen.out.data = NilBytes
            ELSE IF Len(c) = 0 \/ Len(c[1]) = 0
            THEN /\ gen.out.err.kind = "empty"
                 /\ gen.out.data = NilBytes
            ELSE /\ gen.out.err = NilErr
                 /\ gen.out.data = c[1][1]

\* An envelope of two candidates, the first with two parts, whose texts
\* differ: the first part of the first candidate was returned.
C14_Witness ==
    /\ gen.pc = "returned"
    /\ gen.reply = Reply("ok", StatusOK,
                         ReplyBody(TRUE, <<<<TextRaw, TextPretty>>, <<TextPretty>>>>))
    /\ gen.out.err = NilErr
    /\ gen.out.data = TextRaw

\* C13: with GEMINI_API_KEY absent or a placeholder, no request is ever sent
\* to the provider: an absent key keeps the server from listening, and every
\* call of GeneratePuzzle returns the credential error before anything is
\* sent, so the request ends in 500 and the cache stays empty.
C13_CredentialGuard ==
    env.GEMINI_API_KEY \in NoCredentials =>
        /\ server = "listening" => env.GEMINI_API_KEY # ""
        /\ table = {}
        /\ \A i \in RequestIds :
              /\ handler[i].sent = NoGeminiRequest
              /\ handler[i].saves = 0
              /\ handler[i].genCalls = 1 =>
                    /\ Done(i)
                    /\ handler[i].genErr = Err("credential")
                    /\ handler[i].w.status = StatusInternalServerError

\* Every change of the table is made by the cache write of a request whose
\* provider call succeeded and which is answered 200, and it removes no key.
WrittenOnlyOnSuccess ==
    /\ \A r \in table : \E q \in table' : q.request_hash = r.request_hash
    /\ table' # table =>
          \E i \in RequestIds :
              /\ Steps(i, "save", "done")
              /\ Generated(i)
              /\ handler'[i].w.status = StatusOK

DifferInCase(a, b) ==
    /\ a # b
    /\ [a EXCEPT !.Difficulty = ToLower(a.Difficulty)]
         = [b EXCEPT !.Difficulty = ToLower(b.Difficulty)]
\* The requests a and b differ, and only in topics being nil or empty.
DifferInNoTopics(a, b) ==
    /\ a # b
    /\ a.Topics.elems = <<>> /\ b.Topics.elems = <<>>
    /\ [a EXCEPT !.Topics = NilSlice] = [b EXCEPT !.Topics = NilSlice]
\* No request other than i had written j's key when j looked it up.
NoWriterBefore(j, i) ==
    \A k \in RequestIds \ {i, j} :
        ~(/\ Wrote(k)
          /\ handler[k].requestHash = handler[j].requestHash
          /\ handler[k].savedAt < handler[j].lookupAt)

\* C16: two requests that differ only in the letter case of difficulty, or
\* only in topics being null or an empty list, have different keys, and the
\* provider requests made for them carry the same template, schema and
\* prompt values; so when the first has written its row and the second then
\* looks its key up, the second misses, makes its own provider call and,
\* when its write is applied, has its own row beside the first one's.
C16_KeyFinerThanPrompt ==
    \A i, j \in RequestIds :
        (/\ handler[i].lookups = 1 /\ handler[j].lookups = 1
         /\ \/ DifferInCase(handler[i].req, handler[j].req)
            \/ DifferInNoTopics(handler[i].req, handler[j].req)) =>
            /\ handler[i].requestHash # handler[j].requestHash
            /\ GeminiRequestOf(apiKey, handler[i].req)
                 = GeminiRequestOf(apiKey, handler[j].req)
            /\ (handler[i].genCalls = 1 /\ handler[j].genCalls = 1) =>
                   handler[i].sent = handler[j].sent
            /\ (/\ Wrote(i)
                /\ handler[i].savedAt < handler[j].lookupAt
                /\ NoWriterBefore(j, i)) =>
                   /\ Missed(j)
                   /\ handler[j].cachedResponse = NilBytes
                   /\ Done(j) =>
                         /\ handler[j].genCalls = 1
                         /\ handler[j].sent # NoGeminiRequest
                   /\ Wrote(j) =>
                         /\ RowsOf(table, handler[i].requestHash) # {}
                         /\ RowsOf(table, handler[j].requestHash) # {}
                         /\ Cardinality(table) >= 2

\* A request without a topics list wrote its row; the same request with an
\* empty topics list came next, missed, was sent to the provider with the
\* same prompt and wrote a second row.
C16_Witness ==
    \E i, j \in RequestIds :
        /\ handler[i].req = ReqB /\ handler[j].req = ReqBEmpty
        /\ Wrote(i) /\ Wrote(j)
        /\ handler[i].savedAt < handler[j].lookupAt
        /\ Missed(j)
        /\ Generated(j)
        /\ handler[j].sent = handler[i].sent
        /\ handler[j].sent.topicsString = <<"general knowledge">>
        /\ Cardinality(table) = 2
====
